---- MODULE Spec2Model ----
(***************************************************************************)
(* F-Spot FUSE filesystem (fspotfs.py): the tag/photo database, the shared *)
(* memoization cache _cache and the four FUSE handlers getattr, readlink,  *)
(* access and readdir.                                                     *)
(*                                                                         *)
(* Strings are sequences of characters.  A character is a one-letter TLA+  *)
(* string; the multi-letter atoms "file://" and "%20" stand for exactly    *)
(* those substrings, and the cache prefixes ("tag_childs", ...) and "None" *)
(* (str(None)) stand for words no tag or file name of the model contains.  *)
(* All names are ASCII, where .encode('utf-8') keeps every character.      *)
(***************************************************************************)
EXTENDS Integers, Sequences, FiniteSets, TLC

VARIABLES tags, photos, photo_tags, repeated, _cache, ret, budget,
          threads, computed

vars == <<tags, photos, photo_tags, repeated, _cache, ret, budget,
          threads, computed>>

db == <<tags, photos, photo_tags, repeated>>

(***************************************************************************)
(* Bounds of the model.                                                    *)
(***************************************************************************)
\* number of rows of the tags table
NumTags == 3
\* number of rows of the photos table
NumPhotos == 2
\* handler invocations explored on the small databases
MaxCalls == 2
\* handler invocations explored on the large family of databases
WideCalls == 1
\* rows of the photo_tags table on the large family of databases
MaxRows == 4
\* depth of nested tag_childs frames at which the interpreter gives up
\* (sys.getrecursionlimit(), scaled to the size of the tag table)
RecursionLimit == 6

(***************************************************************************)
(* Python values.                                                          *)
(***************************************************************************)
\* Python's None where an integer is expected (tag ids are positive, the
\* root category is 0)
None == 0 - 1

ENOENT == 2
EINVAL == 22

Digit == <<"0", "1", "2", "3", "4", "5", "6", "7", "8", "9">>

\* str(param): decimal digits of an integer, "None" for None
RECURSIVE str(_)
str(n) ==
    IF n = None THEN <<"None">>
    ELSE IF n < 10 THEN <<Digit[n + 1]>>
    ELSE str(n \div 10) \o <<Digit[(n % 10) + 1]>>

\* code point of a character, the order Python compares byte strings by
ord(ch) ==
    CASE ch = " " -> 32
      [] ch = "%" -> 37
      [] ch = "." -> 46
      [] ch = "/" -> 47
      [] ch = "_" -> 95
      [] ch = "a" -> 97
      [] ch = "b" -> 98
      [] ch = "c" -> 99
      [] ch = "d" -> 100
      [] ch = "e" -> 101
      [] ch = "p" -> 112
      [] ch = "x" -> 120
      [] OTHER -> 48

\* s < t for byte strings (lexicographic, a proper prefix is smaller)
RECURSIVE StrLess(_, _)
StrLess(s, t) ==
    IF t = <<>> THEN FALSE
    ELSE IF s = <<>> THEN TRUE
    ELSE IF ord(Head(s)) # ord(Head(t)) THEN ord(Head(s)) < ord(Head(t))
    ELSE StrLess(Tail(s), Tail(t))

\* the elements of a sequence
Range(s) == {s[i] : i \in DOMAIN s}

\* name = expression: the expression is evaluated once, then F uses its value
Let(v, F(_)) == CHOOSE y \in {F(x) : x \in {v}} : TRUE

\* a set of integers as the sequence of its elements in ascending order
RECURSIVE Ascending(_)
Ascending(S) ==
    IF S = {} THEN <<>>
    ELSE Let(CHOOSE x \in S : \A y \in S : x <= y,
             LAMBDA m : <<m>> \o Ascending(S \ {m}))

\* sep.join(parts)
RECURSIVE Join(_, _)
Join(sep, parts) ==
    IF parts = <<>> THEN <<>>
    ELSE IF Len(parts) = 1 THEN parts[1]
    ELSE parts[1] \o sep \o Join(sep, Tail(parts))

\* list.sort(key=lambda x: x.name): stable insertion into a sorted list
RECURSIVE Insert(_, _)
Insert(e, s) ==
    IF s = <<>> THEN <<e>>
    ELSE IF StrLess(e.name, Head(s).name) THEN <<e>> \o s
    ELSE <<Head(s)>> \o Insert(e, Tail(s))

\* the first n elements of s, sorted
RECURSIVE sort_upto(_, _)
sort_upto(s, n) ==
    IF n = 0 THEN <<>>
    ELSE Let(sort_upto(s, n - 1), LAMBDA sorted : Insert(s[n], sorted))

\* the sort left out
sort_left_out(s) == s

sort(s) == Let(s, LAMBDA l : sort_upto(l, Len(l)))

(***************************************************************************)
(* os.path                                                                 *)
(***************************************************************************)
\* p.rfind('/') + 1
rfind(p) ==
    LET S == {i \in DOMAIN p : p[i] = "/"}
    IN  IF S = {} THEN 0 ELSE CHOOSE i \in S : \A j \in S : j <= i

basename(p) == SubSeq(p, rfind(p) + 1, Len(p))

RECURSIVE rstrip(_)
rstrip(p) ==
    IF p # <<>> /\ p[Len(p)] = "/" THEN rstrip(SubSeq(p, 1, Len(p) - 1)) ELSE p

dirname(p) ==
    LET head == SubSeq(p, 1, rfind(p))
    IN  IF head # <<>> /\ \E i \in DOMAIN head : head[i] # "/"
        THEN rstrip(head) ELSE head

\* os.path.join(a, b)
join(a, b) ==
    IF b # <<>> /\ b[1] = "/" THEN b
    ELSE IF a = <<>> \/ a[Len(a)] = "/" THEN a \o b
    ELSE a \o <<"/">> \o b

\* urllib.unquote: percent-decoding
unquote(s) == [i \in DOMAIN s |-> IF s[i] = "%20" THEN " " ELSE s[i]]

\* unicode.encode('utf-8') of an ASCII string: one byte per character
encode(s) == [i \in DOMAIN s |-> IF ord(s[i]) < 128 THEN s[i] ELSE "?"]

(***************************************************************************)
(* The SQL sentences, over the tables tags(id, name, category_id),         *)
(* photos(id, filename, base_uri) and photo_tags(photo_id, tag_id).        *)
(* Every parameter arrives as a string (FSpotFS.query); an integer column  *)
(* equals a string parameter when the parameter is its decimal form.       *)
(* Rows come in table order.                                               *)
(***************************************************************************)
\* rows of photo_tags in table order, as <<photo_id, tag_id>>
PhotoTagRows ==
    Let(Ascending({r[1] * (NumTags + 1) + r[2] : r \in photo_tags}),
        LAMBDA asc :
            [i \in DOMAIN asc |->
                CHOOSE r \in photo_tags : r[1] * (NumTags + 1) + r[2] = asc[i]])

\* keep the elements of a sequence that satisfy a test
Select(s, Test(_)) ==
    Let(s, LAMBDA l :
        Let(Ascending({i \in DOMAIN l : Test(l[i])}),
            LAMBDA kept : [k \in DOMAIN kept |-> l[kept[k]]]))

SUBTAG_IDS(category) ==
    Select(Ascending(DOMAIN tags), LAMBDA t : str(tags[t].category_id) = category)

SUBTAG_NAMES(category) ==
    Let(SUBTAG_IDS(category), LAMBDA ids : [i \in DOMAIN ids |-> tags[ids[i]].name])

TAG_NAMES ==
    Let(Ascending(DOMAIN tags), LAMBDA ids : [i \in DOMAIN ids |-> tags[ids[i]].name])

\* one row or None
TAG_ID(name) ==
    Let(Select(Ascending(DOMAIN tags), LAMBDA t : tags[t].name = name),
        LAMBDA ids : IF ids = <<>> THEN None ELSE ids[1])

ALL_PHOTOS ==
    Let(Ascending(DOMAIN photos),
        LAMBDA ids : [i \in DOMAIN ids |-> photos[ids[i]].filename])

\* the file names of rows of photo_tags, LEFT JOIN photos
Filenames(rows) == [i \in DOMAIN rows |-> photos[rows[i][1]].filename]

LEAF_PHOTOS(tag) ==
    Let(Select(PhotoTagRows, LAMBDA r : str(r[2]) = tag),
        LAMBDA rows : Filenames(rows))

\* prepare_in(sql, items): the number of ? placeholders of the IN clause
prepare_in(items) == Len(items)

\* the NOT IN clause left out
TAG_PHOTOS_without_not_in(tag, in_items) == LEAF_PHOTOS(tag)

TAG_PHOTOS(tag, in_items) ==
    Let({r[1] : r \in {q \in photo_tags : str(q[2]) \in Range(in_items)}},
        LAMBDA excluded :
            Let(Select(PhotoTagRows,
                       LAMBDA r : str(r[2]) = tag /\ r[1] \notin excluded),
                LAMBDA rows : Filenames(rows)))

\* replace(p.base_uri, 'file://', '')
replace(uri) == Select(uri, LAMBDA ch : ch # "file://")

\* one row <<uri, filename>> or <<>> for None
FILE_SQL(tag, name) ==
    Let(Select(PhotoTagRows,
               LAMBDA r : str(r[2]) = tag /\ photos[r[1]].filename = name),
        LAMBDA rows :
            IF rows = <<>> THEN <<>>
            ELSE <<replace(photos[rows[1][1]].base_uri), photos[rows[1][1]].filename>>)

(***************************************************************************)
(* The cache.  A cached method is modelled as an operator from the cache   *)
(* it starts with to a record [c, v, exc]: the cache it leaves, the value  *)
(* it returns and the exception it raises ("" for none).                   *)
(***************************************************************************)
Ret(c, v) == [c |-> c, v |-> v, exc |-> ""]

Raise(c, e) == [c |-> c, v |-> <<>>, exc |-> e]

\* r is evaluated; an exception it raises propagates, otherwise F goes on
Try(r, F(_)) == Let(r, LAMBDA x : IF x.exc # "" THEN x ELSE F(x))

\* _cache[key] = value
Put(c, key, value) ==
    [k \in DOMAIN c \cup {key} |-> IF k = key THEN value ELSE c[k]]

\* key = '_'.join([prefix] + list(map(str, args)))
CacheKey(prefix, args) == Join(<<"_">>, <<(<<prefix>>)>> \o args)

\* bool(value) of a stored value: None, 0, '' and [] are false
Truthy(key, value) ==
    CASE key[1] = "tag_to_id" -> value # None
      [] key[1] = "access" -> value # 0
      [] key[1] = "getattr" -> TRUE
      [] OTHER -> value # <<>>

\* the stored value is used only when it is true ("if not _cache.get(key)")
cls_cached_unless_false(c, key, r) ==
    IF key \in DOMAIN c /\ Truthy(key, c[key]) THEN Ret(c, c[key])
    ELSE Try(r, LAMBDA x : Ret(Put(x.c, key, x.v), x.v))

\* wrapper: r is what fn does when it starts with cache c
cls_cached(c, key, r) ==
    IF key \in DOMAIN c THEN Ret(c, c[key])
    ELSE Try(r, LAMBDA x : Ret(Put(x.c, key, x.v), x.v))

\* the distinct elements among the first n of a list
RECURSIVE Distinct_upto(_, _)
Distinct_upto(s, n) ==
    IF n = 0 THEN <<>>
    ELSE Let(Distinct_upto(s, n - 1),
             LAMBDA rest : IF s[n] \in Range(rest) THEN rest ELSE Append(rest, s[n]))

\* list(set(l)): the distinct elements of a list
Distinct(s) == Let(s, LAMBDA l : Distinct_upto(l, Len(l)))

\* tag_childs(parent): parent is the string form str(parent) of the
\* argument, which is all the method uses; depth counts the nested frames
RECURSIVE tag_childs(_, _, _)
RECURSIVE tag_childs_each(_, _, _)
\* only the first sub-tag is followed
tag_childs_each_first(c, tids, depth) ==
    IF tids = <<>> THEN Ret(c, <<>>) ELSE tag_childs(c, tids[1], depth)

\* [self.tag_childs(tid) for tid in result], already reduced to one list
tag_childs_each(c, tids, depth) ==
    IF tids = <<>> THEN Ret(c, <<>>)
    ELSE Try(tag_childs(c, tids[1], depth), LAMBDA first :
             Try(tag_childs_each(first.c, Tail(tids), depth), LAMBDA rest :
                 Ret(rest.c, first.v \o rest.v)))

\* first-level sub-tags only
tag_childs_first_level(c, parent, depth) ==
    Let(SUBTAG_IDS(parent), LAMBDA ids :
        Ret(c, Distinct([i \in DOMAIN ids |-> str(ids[i])])))

tag_childs_body(c, parent, depth) ==
    IF depth >= RecursionLimit THEN Raise(c, "RuntimeError")
    ELSE Let(SUBTAG_IDS(parent), LAMBDA ids :
             Let(Distinct([i \in DOMAIN ids |-> str(ids[i])]), LAMBDA result :
                 Try(tag_childs_each(c, result, depth + 1), LAMBDA deeper :
                     Ret(deeper.c, result \o Distinct(deeper.v)))))

tag_childs(c, parent, depth) ==
    cls_cached(c, CacheKey("tag_childs", <<parent>>),
               tag_childs_body(c, parent, depth))

\* tag_names(*args): args is <<>> or <<parent>>
tag_names(c, args) ==
    cls_cached(c, CacheKey("tag_names", [i \in DOMAIN args |-> str(args[i])]),
               Ret(c, IF args # <<>> /\ args[1] # None
                      THEN SUBTAG_NAMES(str(args[1])) ELSE TAG_NAMES))

encoded_tag_names(c) ==
    cls_cached(c, CacheKey("encoded_tags_cache", <<>>),
               Try(tag_names(c, <<>>), LAMBDA names :
                   Ret(names.c, [i \in DOMAIN names.v |-> encode(names.v[i])])))

tag_to_id(c, name) ==
    cls_cached(c, CacheKey("tag_to_id", <<name>>), Ret(c, TAG_ID(name)))

\* the tag itself is passed among its sub-tags
file_names_unrepeated_tag_excluded(c, tag) ==
    Try(tag_childs(c, str(tag), 0), LAMBDA children :
        IF children.v # <<>>
        THEN Ret(children.c,
                 TAG_PHOTOS(str(tag), Append(children.v, str(tag))))
        ELSE Ret(children.c, LEAF_PHOTOS(str(tag))))

\* the rows file_names fetches for a tag when self.repeated is false
file_names_unrepeated(c, tag) ==
    Try(tag_childs(c, str(tag), 0), LAMBDA children :
        IF children.v # <<>>
        THEN Ret(children.c,
                 TAG_PHOTOS(str(tag),
                            SubSeq(children.v, 1, prepare_in(children.v))))
        ELSE Ret(children.c, LEAF_PHOTOS(str(tag))))

\* self.repeated ignored
file_names_never_repeated(c, args) ==
    IF args # <<>> /\ args[1] # None THEN file_names_unrepeated(c, args[1])
    ELSE Ret(c, ALL_PHOTOS)

\* file_names(*args): args is <<>> or <<tag>>
file_names_body(c, args) ==
    IF args # <<>> /\ args[1] # None
    THEN IF ~repeated THEN file_names_unrepeated(c, args[1])
         ELSE Ret(c, LEAF_PHOTOS(str(args[1])))
    ELSE Ret(c, ALL_PHOTOS)

file_names(c, args) ==
    cls_cached(c, CacheKey("file_names", [i \in DOMAIN args |-> str(args[i])]),
               file_names_body(c, args))

encoded_file_names(c) ==
    cls_cached(c, CacheKey("encoded_file_names", <<>>),
               Try(file_names(c, <<>>), LAMBDA names :
                   Ret(names.c, [i \in DOMAIN names.v |-> encode(names.v[i])])))

link_path_body(c, tag, name) ==
    Let(tag_to_id(c, tag), LAMBDA id :
        Let(FILE_SQL(str(id.v), name), LAMBDA row :
            IF row # <<>> THEN Ret(id.c, encode(unquote(join(row[1], row[2]))))
            ELSE Ret(id.c, <<>>)))

link_path(c, tag, name) ==
    cls_cached(c, CacheKey("link_path", <<tag, name>>), link_path_body(c, tag, name))

\* the whole path, not its basename, is looked up among the tag names
is_dir_whole_path(c, path) ==
    IF path \in {<<".">>, <<".", ".">>, <<"/">>} THEN Ret(c, TRUE)
    ELSE Try(encoded_tag_names(c), LAMBDA names :
             Ret(names.c, path \in Range(names.v)))

is_dir(c, path) ==
    IF path \in {<<".">>, <<".", ".">>, <<"/">>} THEN Ret(c, TRUE)
    ELSE Try(encoded_tag_names(c), LAMBDA names :
             Ret(names.c, basename(path) \in Range(names.v)))

is_file(c, path) ==
    Try(encoded_file_names(c), LAMBDA names :
        Ret(names.c, basename(path) \in Range(names.v)))

(***************************************************************************)
(* Stats and directory entries.                                            *)
(***************************************************************************)
\* stat.S_IFREG | stat.S_IFLNK
S_IFREG_S_IFLNK == 40960

DirStat ==
    [errno |-> 0, st_mode |-> "S_IFDIR|0755", st_nlink |-> 2, st_size |-> 0]

\* os.stat(path): st is what the disk holds at a non-empty path, None for
\* nothing; os.stat raises OSError where there is nothing
ImageLinkStat(c, path, st) ==
    IF path = <<>> \/ st = None THEN Raise(c, "OSError")
    ELSE Ret(c, [errno |-> 0, st_mode |-> "S_IFREG|S_IFLNK|0644",
                 st_nlink |-> 0, st_size |-> st])

\* return -errno.ENOENT
NoEntry ==
    [errno |-> 0 - ENOENT, st_mode |-> "", st_nlink |-> 0, st_size |-> 0]

Direntry(name, type) == [name |-> name, type |-> type]

(***************************************************************************)
(* The FUSE handlers.                                                      *)
(***************************************************************************)
getattr_file(c, fname, tag, st) ==
    Let(tag_to_id(c, tag), LAMBDA id :
        Try(file_names(id.c, <<id.v>>), LAMBDA names :
            IF fname \in Range(names.v)
            THEN Let(link_path(names.c, tag, fname), LAMBDA link :
                     ImageLinkStat(link.c, link.v, st))
            ELSE Ret(names.c, NoEntry)))

getattr_body(c, path, st) ==
    Let(is_dir(c, path), LAMBDA dir :
        IF dir.v THEN Ret(dir.c, DirStat)
        ELSE Let(is_file(dir.c, path), LAMBDA file :
                 IF file.v
                 THEN getattr_file(file.c, basename(path), basename(dirname(path)), st)
                 ELSE Ret(file.c, NoEntry)))

getattr(c, path, st) ==
    cls_cached(c, CacheKey("getattr", <<path>>), getattr_body(c, path, st))

readlink(c, path) ==
    cls_cached(c, CacheKey("readlink", <<path>>),
               link_path(c, basename(dirname(path)), basename(path)))

access_file(c, path) ==
    Let(tag_to_id(c, basename(dirname(path))), LAMBDA id :
        Try(file_names(id.c, <<id.v>>), LAMBDA names :
            IF basename(path) \in Range(names.v) THEN Ret(names.c, 0)
            ELSE Ret(names.c, 0 - EINVAL)))

access_body(c, path) ==
    Let(is_dir(c, path), LAMBDA dir :
        IF dir.v THEN Ret(dir.c, 0)
        ELSE Let(is_file(dir.c, path), LAMBDA file :
                 IF file.v THEN access_file(file.c, path)
                 ELSE Ret(file.c, 0 - EINVAL)))

access(c, path, offset) ==
    cls_cached(c, CacheKey("access", <<path, str(offset)>>), access_body(c, path))

\* the sorted entries of a list of names
Direntries(names, type) ==
    sort([i \in DOMAIN names |-> Direntry(encode(names[i]), type)])

_readdir_body(c, path) ==
    Let(IF path = <<"/">> THEN Ret(c, 0) ELSE tag_to_id(c, basename(path)),
        LAMBDA parent :
            Let(tag_names(parent.c, <<parent.v>>), LAMBDA names :
                Let(Direntries(names.v, 0), LAMBDA dirs :
                    Try(file_names(names.c, <<parent.v>>), LAMBDA fnames :
                        Let(Direntries(fnames.v, S_IFREG_S_IFLNK), LAMBDA files :
                            Ret(fnames.c,
                                <<Direntry(<<".">>, 0), Direntry(<<".", ".">>, 0)>>
                                    \o dirs \o files))))))

_readdir(c, path, offset) ==
    cls_cached(c, CacheKey("readdir", <<path, str(offset)>>), _readdir_body(c, path))

(***************************************************************************)
(* The databases and the requests of the model.                            *)
(***************************************************************************)
TagIds == 1 .. NumTags

PhotoIds == 1 .. NumPhotos

\* tag names are unique (tags.name is UNIQUE in the F-Spot schema)
TagName(t) ==
    CASE t = 1 -> <<"b">>
      [] t = 2 -> <<"a", "_", "b">>
      [] t = 3 -> <<"a">>
      [] OTHER -> <<"d">> \o str(t)

\* file names: c, b_c, and a, which is also the name of a tag
PhotoNames == {<<"c">>, <<"b", "_", "c">>, <<"a">>}

BaseUri(p) ==
    IF p = 1 THEN <<"file://", "/", "p">> ELSE <<"file://", "/", "%20", "p">>

\* category_id of every tag: 0 for a top-level tag.  Tags after the first
\* hang below an earlier row or the root; the first tag is top-level or hangs
\* below the last one, which gives the forests whose rows are not in
\* top-down order and the malformed tables with a cycle of two or more tags.
TagTables ==
    {[t \in TagIds |-> [name |-> TagName(t), category_id |-> cat[t]]] :
        cat \in {f \in [TagIds -> 0 .. NumTags] :
                    /\ f[1] \in {0, NumTags}
                    /\ \A t \in TagIds : t > 1 => f[t] < t}}

\* the first photo is named c; the others share its name or not
PhotoTables ==
    {[p \in PhotoIds |-> [filename |-> fn[p], base_uri |-> BaseUri(p)]] :
        fn \in {f \in [PhotoIds -> PhotoNames] : f[1] = <<"c">>}}

\* the databases explored with MaxCalls requests: the tags b, b/a and a_b,
\* photos of different names, the first tagged a_b, b, both or not at all,
\* the second tagged a or not at all
SmallDb ==
    /\ tags = [t \in TagIds |->
                [name |-> TagName(t), category_id |-> IF t = 3 THEN 1 ELSE 0]]
    /\ photos = [p \in PhotoIds |->
                  [filename |-> IF p = 1 THEN <<"c">> ELSE <<"b", "_", "c">>,
                   base_uri |-> BaseUri(p)]]
    /\ photo_tags \in SUBSET {<<1, 2>>, <<1, 1>>, <<2, 3>>}

\* one handler at a time: no threads
Init ==
    /\ threads = <<>>
    /\ computed = <<>>
    /\ repeated \in BOOLEAN
    /\ _cache = [k \in {} |-> 0]
    /\ ret = [op |-> "", path |-> <<>>, v |-> <<>>, exc |-> ""]
    /\ \/ /\ tags \in TagTables
          /\ photos \in PhotoTables
          /\ photo_tags \in {a \in SUBSET (PhotoIds \X TagIds) : Cardinality(a) <= MaxRows}
          /\ budget = WideCalls
       \/ /\ SmallDb
          /\ budget = MaxCalls

\* the paths of the requests: the root, /d and /d/l, where d is a tag name
\* or a name nothing has, and l is a photo name (a is the name of a tag
\* too); and /c, a photo name directly under the root
DirSegments == {TagName(t) : t \in TagIds} \cup {<<"x">>}

LeafSegments == PhotoNames \cup {TagName(3)}

Paths ==
    {<<"/">>, <<"/", "c">>}
    \cup {<<"/">> \o d : d \in DirSegments}
    \cup {<<"/">> \o d \o <<"/">> \o l : d \in DirSegments, l \in LeafSegments}

Offsets == {0}

\* what os.stat can find at a link target: nothing, or a file of some size
StatOutcomes == {None, 5}

\* a handler runs to its end: r is what it does from the cache as it is
Return(op, path, r) ==
    /\ budget > 0
    /\ budget' = budget - 1
    /\ \E x \in {r} :
           /\ _cache' = x.c
           /\ ret' = [op |-> op, path |-> path, v |-> x.v, exc |-> x.exc]
    /\ UNCHANGED <<db, threads, computed>>

Getattr ==
    \E path \in Paths, st \in StatOutcomes :
        Return("getattr", path, getattr(_cache, path, st))

Readlink ==
    \E path \in Paths : Return("readlink", path, readlink(_cache, path))

Access ==
    \E path \in Paths, offset \in Offsets :
        Return("access", path, access(_cache, path, offset))

Readdir ==
    \E path \in Paths, offset \in Offsets :
        Return("readdir", path, _readdir(_cache, path, offset))

Next == Getattr \/ Readlink \/ Access \/ Readdir

Spec == Init /\ [][Next]_vars

(***************************************************************************)
(* Handlers on several threads.  The FUSE loop started by main() serves    *)
(* requests on threads that share _cache; the interpreter switches between *)
(* them between two operations on the dictionary.  A thread is a stack of  *)
(* frames of the wrapper of cls_cached, the innermost first; a frame is at *)
(* "test" (key not in _cache), "fn" (the wrapped method starts), "fn2"     *)
(* (the wrapped method has the answer of the cached method it called),     *)
(* "store" (_cache[key] = ...) or "fetch" (return _cache[key]).  The       *)
(* requests are readlink calls, which go through link_path and tag_to_id.  *)
(* computed counts, for every method and argument tuple, how often the     *)
(* wrapped method was started.                                             *)
(***************************************************************************)
\* threads serving requests
NumThreads == 2
\* requests a thread serves one after the other
MaxRequests == 2

Threads == 1 .. NumThreads

\* the paths the threads ask readlink for
ThreadPaths ==
    {<<"/">> \o TagName(2) \o <<"/", "c">>,
     <<"/">> \o TagName(3) \o <<"/", "b", "_", "c">>,
     <<"/">> \o TagName(3) \o <<"/", "c">>}

\* the cached calls a request makes: the method and its arguments
CallsOf(path) ==
    {<<"readlink", <<path>>>>,
     <<"link_path", <<basename(dirname(path)), basename(path)>>>>,
     <<"tag_to_id", <<basename(dirname(path))>>>>}

ThreadCalls == UNION {CallsOf(path) : path \in ThreadPaths}

Frame(op, args) == [op |-> op, args |-> args, pc |-> "test", val |-> <<>>]

\* key of the wrapper's frame
FrameKey(f) == CacheKey(f.op, f.args)

\* the first test of the wrapper is on the truth of the stored value
KeyStored_and_true(c, key) == key \in DOMAIN c /\ Truthy(key, c[key])

\* key in _cache
KeyStored(c, key) == key \in DOMAIN c

\* what link_path makes of the row for a tag id and a file name
LinkOf(id, name) ==
    Let(FILE_SQL(str(id), name), LAMBDA row :
        IF row # <<>> THEN encode(unquote(join(row[1], row[2]))) ELSE <<>>)

InitThreads ==
    /\ tags = [t \in TagIds |->
                [name |-> TagName(t), category_id |-> IF t = 3 THEN 1 ELSE 0]]
    /\ photos = [p \in PhotoIds |->
                  [filename |-> IF p = 1 THEN <<"c">> ELSE <<"b", "_", "c">>,
                   base_uri |-> BaseUri(p)]]
    /\ photo_tags \in SUBSET {<<1, 2>>, <<2, 3>>}
    /\ repeated = FALSE
    /\ _cache = [k \in {} |-> 0]
    /\ ret = [op |-> "", path |-> <<>>, v |-> <<>>, exc |-> ""]
    /\ budget = 0
    /\ threads = [t \in Threads |->
                   [stack |-> <<>>, request |-> <<>>, result |-> <<>>,
                    left |-> MaxRequests]]
    /\ computed = [oa \in ThreadCalls |-> 0]

\* thread t replaces its innermost frame by the frames fs
Continue(t, fs) ==
    /\ threads' = [threads EXCEPT ![t].stack = fs \o Tail(@)]
    /\ UNCHANGED <<db, ret, budget>>

\* a thread takes a request: the wrapper of readlink is entered
ThreadCall ==
    \E t \in Threads, path \in ThreadPaths :
        /\ threads[t].stack = <<>>
        /\ threads[t].left > 0
        /\ threads' = [threads EXCEPT ![t] =
                          [stack |-> <<Frame("readlink", <<path>>)>>,
                           request |-> path, result |-> <<>>,
                           left |-> @.left - 1]]
        /\ UNCHANGED <<db, ret, budget, _cache, computed>>

\* if key not in _cache
ThreadTest ==
    \E t \in Threads :
        /\ threads[t].stack # <<>>
        /\ \E f \in {Head(threads[t].stack)} :
               /\ f.pc = "test"
               /\ IF KeyStored(_cache, FrameKey(f))
                  THEN /\ Continue(t, <<[f EXCEPT !.pc = "fetch"]>>)
                       /\ UNCHANGED computed
                  ELSE /\ Continue(t, <<[f EXCEPT !.pc = "fn"]>>)
                       /\ computed' = [computed EXCEPT ![<<f.op, f.args>>] = @ + 1]
        /\ UNCHANGED _cache

\* fn(slf, *args) starts: tag_to_id queries the tags, link_path calls
\* tag_to_id, readlink calls link_path
ThreadFn ==
    \E t \in Threads :
        /\ threads[t].stack # <<>>
        /\ \E f \in {Head(threads[t].stack)} :
               /\ f.pc = "fn"
               /\ CASE f.op = "tag_to_id" ->
                          Continue(t, <<[f EXCEPT !.pc = "store",
                                                  !.val = TAG_ID(f.args[1])]>>)
                    [] f.op = "link_path" ->
                          Continue(t, <<Frame("tag_to_id", <<f.args[1]>>),
                                        [f EXCEPT !.pc = "fn2"]>>)
                    [] f.op = "readlink" ->
                          Continue(t, <<Frame("link_path",
                                              <<basename(dirname(f.args[1])),
                                                basename(f.args[1])>>),
                                        [f EXCEPT !.pc = "fn2"]>>)
        /\ UNCHANGED <<_cache, computed>>

\* fn goes on with the answer of the method it called: link_path queries
\* the file of the tag id, readlink returns the link
ThreadFn2 ==
    \E t \in Threads :
        /\ threads[t].stack # <<>>
        /\ \E f \in {Head(threads[t].stack)} :
               /\ f.pc = "fn2"
               /\ IF f.op = "link_path"
                  THEN Continue(t, <<[f EXCEPT !.pc = "store",
                                               !.val = LinkOf(f.val, f.args[2])]>>)
                  ELSE Continue(t, <<[f EXCEPT !.pc = "store"]>>)
        /\ UNCHANGED <<_cache, computed>>

\* _cache[key] = the value fn returned
ThreadStore ==
    \E t \in Threads :
        /\ threads[t].stack # <<>>
        /\ \E f \in {Head(threads[t].stack)} :
               /\ f.pc = "store"
               /\ _cache' = Put(_cache, FrameKey(f), f.val)
               /\ Continue(t, <<[f EXCEPT !.pc = "fetch"]>>)
        /\ UNCHANGED computed

\* return _cache[key]: to the calling frame, or as the answer of the request
ThreadFetch ==
    \E t \in Threads :
        /\ threads[t].stack # <<>>
        /\ \E f \in {Head(threads[t].stack)} :
               /\ f.pc = "fetch"
               /\ \E v \in {_cache[FrameKey(f)]} :
                      threads' = [threads EXCEPT ![t] =
                          IF Tail(@.stack) = <<>>
                          THEN [@ EXCEPT !.stack = <<>>, !.result = v]
                          ELSE [@ EXCEPT !.stack =
                                   <<[@[2] EXCEPT !.val = v]>> \o Tail(Tail(@))]]
        /\ UNCHANGED <<db, ret, budget, _cache, computed>>

NextThreads ==
    \/ ThreadCall
    \/ ThreadTest
    \/ ThreadFn
    \/ ThreadFn2
    \/ ThreadStore
    \/ ThreadFetch

SpecThreads == InitThreads /\ [][NextThreads]_vars

(***************************************************************************)
(* The vocabulary of the properties: the tag hierarchy and the assignment  *)
(* relation as the tables give them, independent of the code above.        *)
(***************************************************************************)
Children(t) == {u \in DOMAIN tags : tags[u].category_id = t}

RECURSIVE Below(_, _)
Below(t, n) ==
    IF n = 0 THEN {}
    ELSE Children(t) \cup UNION {Below(u, n - 1) : u \in Children(t)}

\* the tags reachable from t by one or more parent-to-child edges
Descendants(t) == Below(t, Cardinality(DOMAIN tags))

Ancestors(t) == {a \in DOMAIN tags : t \in Descendants(a)}

IsForest == \A t \in DOMAIN tags : t \notin Descendants(t)

Assigned(p, t) == <<p, t>> \in photo_tags

\* the photos assigned to t and to no descendant of t
MostSpecific(t) ==
    {p \in DOMAIN photos :
        Assigned(p, t) /\ \A d \in Descendants(t) : ~Assigned(p, d)}

\* the photos the specification shows at tag t
Visible(t) ==
    IF repeated THEN {p \in DOMAIN photos : Assigned(p, t)} ELSE MostSpecific(t)

FileNamesOf(P) == {photos[p].filename : p \in P}

\* photosFor(t, repeated) as the running program answers it now
photosFor(t) == file_names(_cache, <<t>>)

Cached(prefix, args) == CacheKey(prefix, args) \in DOMAIN _cache

\* p is assigned to tag A and to a descendant B of A
OnBoth(p, A, B) == Assigned(p, A) /\ Assigned(p, B) /\ B \in Descendants(A)

(***************************************************************************)
(* C1.  For every photo p assigned to a tag A and to a descendant B of A,  *)
(* without repeated mode, in every forest and under every assignment       *)
(* relation, p further assigned above, below or beside A and B included:   *)
(* p is in photosFor(B) and p is not in photosFor(A).  photosFor answers   *)
(* file names: "p is not in photosFor(A)" is read as "p gives it no        *)
(* entry", so that another photo of the same name shown at A is no         *)
(* objection.                                                              *)
(***************************************************************************)
\* the name of p is in photosFor(A) at most for other photos of that name
NoEntryFor(p, A) ==
    photos[p].filename \in Range(photosFor(A).v) =>
        \E q \in MostSpecific(A) : q # p /\ photos[q].filename = photos[p].filename

C1_InDescendantNotInAncestor ==
    (~repeated /\ IsForest) =>
        \A p \in DOMAIN photos, A \in DOMAIN tags, B \in DOMAIN tags :
            OnBoth(p, A, B) =>
                /\ photos[p].filename \in Range(photosFor(B).v)
                /\ NoEntryFor(p, A)

\* C1 as amended.  p gives no entry to photosFor(A): its file name is there
\* only for another photo of that name, assigned to A and to no descendant
\* of A; and p's file name is in photosFor(B) when p is assigned to no
\* descendant of B.
C1_ShownAtMostSpecific ==
    (~repeated /\ IsForest) =>
        \A p \in DOMAIN photos, A \in DOMAIN tags, B \in DOMAIN tags :
            OnBoth(p, A, B) =>
                /\ p \in MostSpecific(B) =>
                       photos[p].filename \in Range(photosFor(B).v)
                /\ NoEntryFor(p, A)

\* p is on A and on B below A, q of the same name is on A alone, and a
\* handler has computed the photos of A
C1_Witness ==
    /\ ~repeated /\ IsForest
    /\ \E p \in DOMAIN photos, A \in DOMAIN tags, B \in DOMAIN tags :
           /\ OnBoth(p, A, B)
           /\ p \in MostSpecific(B)
           /\ \E q \in MostSpecific(A) : photos[q].filename = photos[p].filename
           /\ Cached("file_names", <<str(A)>>)

(***************************************************************************)
(* C2.  Without repeated mode, in a forest, photosFor(t) is the file names *)
(* of the photos assigned to t minus every photo assigned to a tag of      *)
(* descendantClosure(t); with an empty closure it is exactly the file      *)
(* names of the photos assigned to t.                                      *)
(***************************************************************************)
C2_PhotosForMinusDescendants ==
    (~repeated /\ IsForest) =>
        \A t \in DOMAIN tags :
            /\ photosFor(t).exc = ""
            /\ Range(photosFor(t).v) = FileNamesOf(MostSpecific(t))
            /\ Len(photosFor(t).v) = Cardinality(MostSpecific(t))
            /\ Descendants(t) = {} =>
                   Range(photosFor(t).v) =
                       FileNamesOf({p \in DOMAIN photos : Assigned(p, t)})

\* the photos of a tag with a grandchild were computed: one photo is on the
\* tag alone, another on the tag and on the grandchild
C2_Witness ==
    /\ ~repeated /\ IsForest
    /\ \E t \in DOMAIN tags, u \in DOMAIN tags, w \in DOMAIN tags :
           /\ u \in Children(t) /\ w \in Children(u)
           /\ Cached("file_names", <<str(t)>>)
           /\ \E p \in MostSpecific(t), q \in DOMAIN photos :
                  Assigned(q, t) /\ Assigned(q, w) /\ ~Assigned(q, u)

(***************************************************************************)
(* C3.  With repeated mode photosFor(t) is exactly the photos assigned to  *)
(* t, nothing excluded: a photo on a tag A and on a descendant B of A is   *)
(* in photosFor(A) and in photosFor(B).                                    *)
(***************************************************************************)
C3_RepeatedShowsEveryAssignment ==
    repeated =>
        /\ \A t \in DOMAIN tags :
               /\ photosFor(t).exc = ""
               /\ Range(photosFor(t).v) =
                      FileNamesOf({p \in DOMAIN photos : Assigned(p, t)})
               /\ Len(photosFor(t).v) =
                      Cardinality({p \in DOMAIN photos : Assigned(p, t)})
        /\ \A p \in DOMAIN photos, A \in DOMAIN tags, B \in DOMAIN tags :
               OnBoth(p, A, B) =>
                   /\ photos[p].filename \in Range(photosFor(A).v)
                   /\ photos[p].filename \in Range(photosFor(B).v)

\* in repeated mode a handler has computed the photos of a tag A that has a
\* photo also assigned to a descendant
C3_Witness ==
    /\ repeated
    /\ \E p \in DOMAIN photos, A \in DOMAIN tags, B \in DOMAIN tags :
           OnBoth(p, A, B) /\ Cached("file_names", <<str(A)>>)

(***************************************************************************)
(* C4.  In a forest descendantClosure(t) is exactly the tags reachable     *)
(* from t by one or more parent-to-child edges: never t, never an ancestor *)
(* of t, whatever closures earlier calls have memoized.                    *)
(***************************************************************************)
C4_ClosureIsDescendants ==
    IsForest =>
        \A t \in DOMAIN tags \cup {0} :
            LET closure == tag_childs(_cache, str(t), 0)
            IN  /\ closure.exc = ""
                /\ Range(closure.v) = {str(d) : d \in Descendants(t)}
                /\ str(t) \notin Range(closure.v)
                /\ \A a \in Ancestors(t) : str(a) \notin Range(closure.v)

\* t has a child u with a child w; the closure of u is memoized, the
\* closure of t is not
C4_Witness ==
    /\ IsForest
    /\ \E t \in DOMAIN tags, u \in DOMAIN tags, w \in DOMAIN tags :
           /\ u \in Children(t) /\ w \in Children(u)
           /\ Cached("tag_childs", <<str(u)>>)
           /\ ~Cached("tag_childs", <<str(t)>>)

(***************************************************************************)
(* C5.  descendantClosure(t) terminates with a result even when the tag    *)
(* table holds a cycle.                                                    *)
(***************************************************************************)
C5_ClosureReturnsOnCycle ==
    \A t \in DOMAIN tags : tag_childs(_cache, str(t), 0).exc = ""

(***************************************************************************)
(* Paths, as the specification classifies them.                            *)
(***************************************************************************)
IsTagName(n) == \E t \in DOMAIN tags : tags[t].name = n

TagOf(n) == CHOOSE t \in DOMAIN tags : tags[t].name = n

\* the path is the root or its last segment is a tag name
IsDirectory(path) == path = <<"/">> \/ IsTagName(basename(path))

\* the id of the directory a path names: 0 for the root
ListedDir(path) == IF path = <<"/">> THEN 0 ELSE TagOf(basename(path))

\* the last segment is a photo shown at the tag the segment before it names
IsFileOfTag(path) ==
    /\ IsTagName(basename(dirname(path)))
    /\ basename(path) \in FileNamesOf(Visible(TagOf(basename(dirname(path)))))

FileEntries(L) == {i \in DOMAIN L : L[i].type = S_IFREG_S_IFLNK}

\* the number of file entries of a listing that carry a name
Listed(L, n) == Cardinality({i \in FileEntries(L) : L[i].name = n})

(***************************************************************************)
(* C6.  For the root and every path that resolves to a tag, the listing is *)
(* ".", "..", then all child tag names of the directory in ascending       *)
(* order, then all photo file names in ascending order; no tag entry comes *)
(* after a file entry.  (What the photos of the root are is C7.)           *)
(***************************************************************************)
C6_ListingOrder ==
    (ret.op = "readdir" /\ ret.exc = "" /\ IsDirectory(ret.path)) =>
        LET L == ret.v
            dir == ListedDir(ret.path)
            nd == Cardinality(Children(dir))
            D == 3 .. (2 + nd)
            F == (3 + nd) .. Len(L)
        IN  /\ Len(L) >= 2 + nd
            /\ L[1] = Direntry(<<".">>, 0)
            /\ L[2] = Direntry(<<".", ".">>, 0)
            /\ \A i \in D : L[i].type = 0
            /\ {L[i].name : i \in D} = {tags[u].name : u \in Children(dir)}
            /\ \A i \in D, j \in D : i < j => StrLess(L[i].name, L[j].name)
            /\ \A i \in F : L[i].type = S_IFREG_S_IFLNK
            /\ \A i \in F, j \in F : i < j => ~StrLess(L[j].name, L[i].name)
            /\ dir # 0 =>
                   \A p \in DOMAIN photos :
                       Listed(L, photos[p].filename) =
                           Cardinality({q \in Visible(dir) :
                                           photos[q].filename = photos[p].filename})

\* the listing of a tag whose two sub-tags and two photos stand in the
\* tables in descending order of their names
C6_Witness ==
    /\ ret.op = "readdir" /\ ret.exc = "" /\ ret.path # <<"/">>
    /\ IsTagName(basename(ret.path))
    /\ \E u \in Children(ListedDir(ret.path)), w \in Children(ListedDir(ret.path)) :
           u < w /\ StrLess(tags[w].name, tags[u].name)
    /\ \E p \in Visible(ListedDir(ret.path)), q \in Visible(ListedDir(ret.path)) :
           p < q /\ StrLess(photos[q].filename, photos[p].filename)
    /\ Len(ret.v) >= 6

(***************************************************************************)
(* C7.  The listing of "/" holds, after the top-level tag names, the file  *)
(* names of all photos of the store, in repeated mode and without it.      *)
(***************************************************************************)
C7_RootListsAllPhotos ==
    (ret.op = "readdir" /\ ret.exc = "" /\ ret.path = <<"/">>) =>
        \A p \in DOMAIN photos :
            Listed(ret.v, photos[p].filename) =
                Cardinality({q \in DOMAIN photos :
                                photos[q].filename = photos[p].filename})

(***************************************************************************)
(* C8.  For every file name f the listing of a path that resolves to a tag *)
(* returns, resolveLink(path/f) returns a non-empty target, whatever the   *)
(* earlier calls have left in the cache.                                   *)
(***************************************************************************)
C8_ListedFilesResolve ==
    \A path \in Paths :
        (path # <<"/">> /\ IsTagName(basename(path))) =>
            LET listing == _readdir(_cache, path, 0)
            IN  listing.exc = "" =>
                    \A i \in FileEntries(listing.v) :
                        readlink(listing.c, path \o <<"/">> \o listing.v[i].name).v
                            # <<>>

(***************************************************************************)
(* C9.  inspect of a non-root path whose last segment b is not a tag name  *)
(* answers File only when the segment before it names a tag T and b is in  *)
(* photosFor(T); in every other case, the segment before it naming no tag  *)
(* included, it answers NotFound and fails with no error.  (Tag tables     *)
(* with a cycle, where C5 fails, are left aside.)                          *)
(***************************************************************************)
C9_InspectFileOrNotFound ==
    (ret.op = "getattr" /\ IsForest /\ ret.path # <<"/">>
        /\ ~IsTagName(basename(ret.path))) =>
        IF IsFileOfTag(ret.path)
        THEN ret.exc = "" => ret.v.st_mode = "S_IFREG|S_IFLNK|0644"
        ELSE ret.exc = "" /\ ret.v = NoEntry

(***************************************************************************)
(* C10.  checkAccess allows a path that resolves to a Directory or to a    *)
(* File whose name is in the photo set of the resolved tag, and denies     *)
(* every other path: it denies a known photo name below a segment that     *)
(* names no tag.  (Tag tables with a cycle are left aside.)                *)
(***************************************************************************)
C10_AccessOnlyWhatExists ==
    (ret.op = "access" /\ IsForest) =>
        /\ ret.exc = ""
        /\ ret.v = 0 <=> (IsDirectory(ret.path) \/ IsFileOfTag(ret.path))

(***************************************************************************)
(* C11.  inspect of a File whose recorded link target is missing on disk   *)
(* (os.stat finds nothing there) returns File attributes with size 0 and   *)
(* does not fail.  The path is a file shown at its tag, its name is no     *)
(* tag's, link_path gives a target, and no earlier answer is cached.       *)
(***************************************************************************)
C11_MissingTargetSizeZero ==
    IsForest =>
        \A path \in Paths :
            ( /\ ~IsTagName(basename(path))
              /\ IsFileOfTag(path)
              /\ ~Cached("getattr", <<path>>)
              /\ link_path(_cache, basename(dirname(path)), basename(path)).v # <<>> ) =>
                LET r == getattr(_cache, path, None)
                IN  /\ r.exc = ""
                    /\ r.v.st_mode = "S_IFREG|S_IFLNK|0644"
                    /\ r.v.st_size = 0

\* some photo of that file name is assigned to the tag of that name
AssignedByName(tag, name) ==
    \E p \in DOMAIN photos, t \in DOMAIN tags :
        tags[t].name = tag /\ photos[p].filename = name /\ Assigned(p, t)

(***************************************************************************)
(* C12.  resolveLink(path) answers not-found (the empty target) whenever   *)
(* no photo named basename(path) is assigned to the tag named              *)
(* basename(dirname(path)), a name no tag has included: it never returns a *)
(* link target then.                                                       *)
(***************************************************************************)
C12_NoAssignmentNoTarget ==
    (ret.op = "readlink"
        /\ ~AssignedByName(basename(dirname(ret.path)), basename(ret.path))) =>
        ret.exc = "" /\ ret.v = <<>>

\* the cache key of a handler call
HandlerKey(op, path) ==
    IF op \in {"getattr", "readlink"} THEN CacheKey(op, <<path>>)
    ELSE CacheKey(op, <<path, str(0)>>)

\* a stored key answers a call with the stored value and leaves the cache
\* as it is; compute, which would raise here, is not invoked
AnsweredFromStore(c, k) ==
    LET r == cls_cached(c, k, Raise(c, "computed"))
    IN  r.exc = "" /\ r.v = c[k] /\ r.c = c

(***************************************************************************)
(* C13.  In sequential use a stored entry is never evicted or replaced,    *)
(* and a later call with the same key returns the stored result without    *)
(* invoking compute again, also when the stored result is an empty list,   *)
(* the empty string, a not-found code or None.                             *)
(***************************************************************************)
C13_StoredIsFinal ==
    [][ /\ \A k \in DOMAIN _cache :
               k \in DOMAIN _cache' /\ _cache'[k] = _cache[k]
        /\ \A k \in DOMAIN _cache' : AnsweredFromStore(_cache', k)
        /\ HandlerKey(ret'.op, ret'.path) \in DOMAIN _cache =>
               /\ ret'.exc = ""
               /\ ret'.v = _cache[HandlerKey(ret'.op, ret'.path)]
               /\ _cache' = _cache ]_vars

\* access and readlink have both been called on a path below a name no tag
\* has: whichever came second found None stored for that name, and the
\* empty string is stored for the link
C13_Witness ==
    \E path \in Paths :
        /\ Cached("access", <<path, str(0)>>)
        /\ Cached("readlink", <<path>>)
        /\ _cache[CacheKey("tag_to_id", <<basename(dirname(path))>>)] = None
        /\ _cache[CacheKey("readlink", <<path>>)] = <<>>

(***************************************************************************)
(* C14.  A cached value answers only the exact (operation, arguments) it   *)
(* was stored for: link_path(tag, name) answers what its own computation   *)
(* gives, whatever other argument tuples have been cached before, so       *)
(* (a_b, c) is never answered with the value of (a, b_c), in either order. *)
(***************************************************************************)
C14_ExactKeyOnly ==
    \A d \in DirSegments, l \in LeafSegments :
        link_path(_cache, d, l).v = link_path_body(_cache, d, l).v

\* the cache key of a method and its arguments
KeyOf(oa) == CacheKey(oa[1], oa[2])

(***************************************************************************)
(* C15.  Under every interleaving of the threads the wrapped method is     *)
(* started at most once for every (method, arguments).                     *)
(***************************************************************************)
C15_ComputedAtMostOnce ==
    \A oa \in DOMAIN computed : computed[oa] <= 1

\* C15 as amended.  The wrapped method is started for (method, arguments)
\* only while no value is stored under the key, never after; threads that
\* test the key before the first store may each start it, so it starts at
\* most once per thread.
C15_ComputedOnlyWhileAbsent ==
    [][ \A oa \in DOMAIN computed :
            /\ computed'[oa] > computed[oa] => KeyOf(oa) \notin DOMAIN _cache
            /\ computed'[oa] <= NumThreads ]_vars

\* every thread has served all its requests, all for one path: readlink
\* was started for it by each thread on its first request, and not on the
\* later ones
C15_Witness ==
    /\ threads # <<>>
    /\ \A t \in DOMAIN threads : threads[t].stack = <<>> /\ threads[t].left = 0
    /\ \E path \in ThreadPaths :
           \A q \in ThreadPaths :
               computed[<<"readlink", <<q>>>>] = IF q = path THEN NumThreads ELSE 0

\* what the method gives for its arguments
ValueOf(oa) ==
    CASE oa[1] = "tag_to_id" -> TAG_ID(oa[2][1])
      [] oa[1] = "link_path" -> LinkOf(TAG_ID(oa[2][1]), oa[2][2])
      [] oa[1] = "readlink" ->
            LinkOf(TAG_ID(basename(dirname(oa[2][1]))), basename(oa[2][1]))

(***************************************************************************)
(* C16.  Under every interleaving of the threads, on equal or different    *)
(* keys: no stored entry is lost or altered, every stored key holds the    *)
(* value of a computation for that (method, arguments), and every request  *)
(* is answered with the value computed for its own arguments.              *)
(***************************************************************************)
C16_CacheNotCorrupted ==
    [][ /\ \A k \in DOMAIN _cache :
               k \in DOMAIN _cache' /\ _cache'[k] = _cache[k]
        /\ \A oa \in DOMAIN computed :
               KeyOf(oa) \in DOMAIN _cache' => _cache'[KeyOf(oa)] = ValueOf(oa)
        /\ \A t \in DOMAIN threads' :
               (threads'[t].stack = <<>> /\ threads'[t].request # <<>>) =>
                   threads'[t].result
                       = ValueOf(<<"readlink", <<threads'[t].request>>>>) ]_vars

(***************************************************************************)
(* C17.  A listing holds no file entry whose name is the name of a         *)
(* directory entry of the same listing: where a child tag and a photo      *)
(* shown in the directory share a name, the name is listed once, as the    *)
(* tag.                                                                    *)
(***************************************************************************)
C17_NoFileNamedAsDirectory ==
    (ret.op = "readdir" /\ ret.exc = "" /\ IsDirectory(ret.path)) =>
        \A i \in FileEntries(ret.v), j \in DOMAIN ret.v \ FileEntries(ret.v) :
            ret.v[i].name # ret.v[j].name

(***************************************************************************)
(* C18.  For the root and every path that resolves to a tag, every entry n *)
(* of the listing other than "." and ".." is found by inspect(path/n): as  *)
(* a Directory when n is listed as a child tag, as a File when n is listed *)
(* as a photo and is no tag's name, the link target being on disk; never   *)
(* NotFound.  (Tag tables with a cycle are left aside.)                    *)
(***************************************************************************)
C18_ListedIsInspectable ==
    IsForest =>
        \A path \in Paths :
            IsDirectory(path) =>
                LET listing == _readdir(_cache, path, 0)
                IN  listing.exc = "" =>
                        \A i \in 3 .. Len(listing.v) :
                            LET n == listing.v[i].name
                                r == getattr(listing.c, join(path, n), 5)
                            IN  /\ r.exc = ""
                                /\ r.v # NoEntry
                                /\ listing.v[i].type = 0 =>
                                       r.v.st_mode = DirStat.st_mode
                                /\ (listing.v[i].type # 0 /\ ~IsTagName(n)) =>
                                       r.v.st_mode = "S_IFREG|S_IFLNK|0644"

\* every segment of the path is a tag the listing of the directory before
\* it returns: a top-level tag first, then a child of the tag before
RECURSIVE ReachableByListing(_)
ReachableByListing(path) ==
    /\ IsTagName(basename(path))
    /\ IF dirname(path) = <<"/">>
       THEN tags[TagOf(basename(path))].category_id = 0
       ELSE /\ ReachableByListing(dirname(path))
            /\ tags[TagOf(basename(path))].category_id
                   = TagOf(basename(dirname(path)))

ReportsDirectory == ret.exc = "" /\ ret.v.st_mode = DirStat.st_mode

(***************************************************************************)
(* C19.  inspect reports a non-root path as a Directory only if the path   *)
(* is reachable by listing from the root; a path whose last segment is a   *)
(* tag that is no child of the segment before it is not a Directory.       *)
(***************************************************************************)
C19_DirectoryOnlyIfListed ==
    (ret.op = "getattr" /\ ret.path # <<"/">> /\ ReportsDirectory) =>
        ReachableByListing(ret.path)

\* C19 as amended.  inspect reports a non-root path as a Directory exactly
\* when its last segment is the name of a tag, whatever the segments before
\* it are.
C19_DirectoryIffLastSegmentIsTag ==
    (ret.op = "getattr" /\ ret.path # <<"/">>) =>
        (ReportsDirectory <=> IsTagName(basename(ret.path)))

\* inspect has answered Directory for a tag below a tag that is not its
\* parent, and something else than Directory for a name no tag has
C19_Witness ==
    /\ ret.op = "getattr" /\ ReportsDirectory
    /\ dirname(ret.path) # <<"/">> /\ IsTagName(basename(dirname(ret.path)))
    /\ ~ReachableByListing(ret.path)

(***************************************************************************)
(* C20.  Without repeated mode, in a forest, no assigned photo is hidden   *)
(* everywhere: it is in photosFor(t) for every tag t it is assigned to     *)
(* none of whose descendants it is assigned to, and there is such a tag.   *)
(***************************************************************************)
C20_ShownSomewhere ==
    (~repeated /\ IsForest) =>
        \A p \in DOMAIN photos :
            (\E t \in DOMAIN tags : Assigned(p, t)) =>
                /\ \E t \in DOMAIN tags :
                       /\ Assigned(p, t)
                       /\ photosFor(t).exc = ""
                       /\ photos[p].filename \in Range(photosFor(t).v)
                /\ \A t \in DOMAIN tags :
                       p \in MostSpecific(t) =>
                           /\ photosFor(t).exc = ""
                           /\ photos[p].filename \in Range(photosFor(t).v)

\* a photo on three tags of a chain is hidden at the upper two, and the
\* photos of the middle one, where it is hidden, have been computed
C20_Witness ==
    /\ ~repeated /\ IsForest
    /\ \E p \in DOMAIN photos, A \in DOMAIN tags, B \in DOMAIN tags, D \in DOMAIN tags :
           /\ OnBoth(p, A, B) /\ OnBoth(p, B, D)
           /\ p \in MostSpecific(D)
           /\ Cached("file_names", <<str(B)>>)
           /\ photos[p].filename \notin Range(_cache[CacheKey("file_names", <<str(B)>>)])

====
